---- MODULE Spec2Model ----
(***************************************************************************)
(* A model of rustsnake: the CyclicBuffer (src/src/cyclic_buffer.rs), the  *)
(* double-buffered FrameBuffer with its escape-sequence encoders           *)
(* (src/src/frame_buffer.rs, src/src/types.rs, src/src/terminal.rs), the   *)
(* input thread and the game loop of main (src/src/main.rs) and PCG32Fast  *)
(* (src/src/random.rs).                                                    *)
(*                                                                         *)
(* Spec    drives one CyclicBuffer<u32> by push / force_push / pop.        *)
(* SpecFB  drives one FrameBuffer by back_buffer().get / set and           *)
(*         swap_buffers, and feeds the bytes it writes to stdout to an     *)
(*         ANSI terminal.                                                  *)
(* SpecEnc calls the encode_ascii functions on a zeroed buffer.            *)
(* SpecIn  runs the input thread beside the main loop's drain of the       *)
(*         channel.                                                        *)
(* SpecRng drives one PCG32Fast by get / discard / seed.                   *)
(* SpecGame plays the game: the loop of main over Snake and Food.          *)
(***************************************************************************)
EXTENDS Integers, Sequences, FiniteSets, TLC

VARIABLES
    \* ---- CyclicBuffer<u32> (cyclic_buffer.rs:1-6)
    segments,            \* Vec<T>, Rust index k is segments[k + 1]
    head_index,
    beyond_tail_index,
    empty,
    \* ---- observation of the CyclicBuffer run
    pre,                 \* the buffer as it was before the last call
    last,                \* the last call: its name, argument and result
    fifo,                \* abstract bounded FIFO driven by the same calls
    pushed,              \* number of push calls that returned true
    popped,              \* number of pop calls that returned Some
    forced,              \* number of force_push calls
    calls,               \* number of calls made so far
    \* ---- FrameBuffer (frame_buffer.rs:31-37)
    dimensions,
    buffer1,
    buffer2,
    buffer1_is_front,
    \* ---- stdout and the terminal behind it
    stdout,              \* the bytes written by the last swap_buffers
    term,                \* terminal: display, cursor, active color
    prev,                \* terminal and front grid before the last swap
    sets,                \* number of get and set calls made so far
    swaps,               \* number of swap_buffers calls completed so far
    panicked,            \* the thread using the FrameBuffer has panicked
    lastfb,              \* the last call on the FrameBuffer and its outcome
    \* ---- one call of an encoder of terminal.rs
    enc,                 \* its input, the buffer it writes into, its result
    \* ---- the input thread, the channel and the main loop reading it
    channel,             \* std::sync::mpsc queue of bytes, oldest first
    sent,                \* every byte the input thread has sent
    received,            \* every byte the main loop has taken
    drained,             \* the bytes taken by the current or last drain
    main_pc,             \* where the main loop is
    direction,           \* the local direction of get_direction_from_stdin
    snake_direction,     \* snake.direction
    \* ---- PCG32Fast
    rng,                 \* the engine: its state as eight bytes, low first
    twin,                \* an equally seeded engine driven by get() alone
    lastrng,             \* the last call on the engine and its result
    \* ---- the game: main's loop over Snake and Food (main.rs:365-414);
    \* snake.segments is the CyclicBuffer above, snake.direction and rng too
    field_dimensions,    \* the playing field, walls included
    food,                \* food.position
    game_pc,             \* "loop", "done" (after break) or "panic"
    score,               \* snake.score
    speed,               \* speed of main
    lastfood,            \* the last call of Food::new and its outcome
    ticks                \* number of passes through the loop begun so far

cbVars == <<segments, head_index, beyond_tail_index, empty,
            pre, last, fifo, pushed, popped, forced, calls>>
fbVars == <<dimensions, buffer1, buffer2, buffer1_is_front,
            stdout, term, prev, sets, swaps, panicked, lastfb>>
encVars == <<enc>>
inVars == <<channel, sent, received, drained, main_pc, direction, snake_direction>>
rngVars == <<rng, twin, lastrng>>
gameVars == <<field_dimensions, food, game_pc, score, speed, lastfood, ticks>>
vars == <<cbVars, fbVars, encVars, inVars, rngVars, gameVars>>

(***************************************************************************)
(* Bounds of the model.                                                    *)
(***************************************************************************)
MaxCapacity == 3
MaxValue == 4
MaxCalls == 7
MaxWidth == 3
MaxHeight == 2
MaxCells == 6
MaxSets == 2
MaxSwaps == 2
MaxCoord == 100
MaxSent == 4
MaxSeed == 5
MaxDiscard == 3
MaxRngCalls == 4
MaxTermX == 12
MaxTermY == 5
MaxTicks == 8

Min(a, b) == IF a < b THEN a ELSE b

(***************************************************************************)
(* CyclicBuffer                                                            *)
(***************************************************************************)
\* <u32 as Default>::default()
DefaultValue == 0

Values == 1..MaxValue

\* CyclicBuffer::new
BufferNew(max_size) ==
    [segments |-> [k \in 1..max_size |-> DefaultValue],
     head_index |-> 0,
     beyond_tail_index |-> 0,
     empty |-> TRUE]

\* the buffer object made of the four fields
Self ==
    [segments |-> segments,
     head_index |-> head_index,
     beyond_tail_index |-> beyond_tail_index,
     empty |-> empty]

Capacity(b) == Len(b.segments)

CountMutant(b) ==
    IF b.empty THEN 0
    ELSE IF b.beyond_tail_index >= b.head_index
         THEN b.beyond_tail_index - b.head_index
         ELSE b.beyond_tail_index + Capacity(b) - b.head_index

Count(b) ==
    IF b.empty THEN 0
    ELSE IF b.beyond_tail_index > b.head_index
         THEN b.beyond_tail_index - b.head_index
         ELSE b.beyond_tail_index + Capacity(b) - b.head_index

Empty(b) == b.empty

Full(b) == Count(b) = Capacity(b)

IncrementMutant(b, index) == (index + 1) % (Capacity(b) + 1)

Increment(b, index) == (index + 1) % Capacity(b)

\* the guard of push and force_push: beyond_tail_index == head_index && !empty
NoRoomMutant(b) == b.beyond_tail_index = b.head_index

NoRoom(b) == b.beyond_tail_index = b.head_index /\ ~b.empty

\* the three assignments common to push and force_push (lines 48-51, 59-62)
StoreMutant(b, value) ==
    [b EXCEPT !.segments[b.head_index + 1] = value,
              !.beyond_tail_index = Increment(b, b.beyond_tail_index),
              !.empty = FALSE]

Store(b, value) ==
    [b EXCEPT !.segments[b.beyond_tail_index + 1] = value,
              !.beyond_tail_index = Increment(b, b.beyond_tail_index),
              !.empty = FALSE]

\* push: <<buffer after the call, returned bool>>
PushMutant(b, value) ==
    IF NoRoom(b) THEN <<Store(b, value), FALSE>> ELSE <<Store(b, value), TRUE>>

Push(b, value) ==
    IF NoRoom(b) THEN <<b, FALSE>> ELSE <<Store(b, value), TRUE>>

\* force_push: buffer after the call
ForcePushMutant(b, value) ==
    IF NoRoom(b)
    THEN Store([b EXCEPT !.head_index = Increment(b, Increment(b, b.head_index))], value)
    ELSE Store(b, value)

ForcePush(b, value) ==
    IF NoRoom(b)
    THEN Store([b EXCEPT !.head_index = Increment(b, b.head_index)], value)
    ELSE Store(b, value)

\* Option<T>: None is the empty sequence, Some(v) the sequence of v
None == <<>>

Some(v) == <<v>>

\* pop: <<buffer after the call, returned Option<T>>>
PopMutant(b) ==
    IF b.empty THEN <<b, None>>
    ELSE LET new_head == Increment(b, b.head_index)
         IN  <<[b EXCEPT !.segments[b.head_index + 1] = DefaultValue,
                         !.head_index = new_head,
                         !.empty = FALSE],
               Some(b.segments[b.head_index + 1])>>

PopNewestMutant(b) ==
    IF b.empty THEN <<b, None>>
    ELSE LET new_head == Increment(b, b.head_index)
             newest == (b.beyond_tail_index + Capacity(b) - 1) % Capacity(b)
         IN  <<[b EXCEPT !.segments[newest + 1] = DefaultValue,
                         !.head_index = new_head,
                         !.empty = (new_head = b.beyond_tail_index)],
               Some(b.segments[newest + 1])>>

Pop(b) ==
    IF b.empty THEN <<b, None>>
    ELSE LET new_head == Increment(b, b.head_index)
         IN  <<[b EXCEPT !.segments[b.head_index + 1] = DefaultValue,
                         !.head_index = new_head,
                         !.empty = (new_head = b.beyond_tail_index)],
               Some(b.segments[b.head_index + 1])>>

\* Iter::next, called from `position` until it returns None
RECURSIVE IterFromMutant(_, _)
IterFromMutant(b, position) ==
    IF position = Count(b) THEN <<>>
    ELSE <<b.segments[((b.beyond_tail_index + position) % Capacity(b)) + 1]>>
         \o IterFromMutant(b, position + 1)

RECURSIVE IterFrom(_, _)
IterFrom(b, position) ==
    IF position = Count(b) THEN <<>>
    ELSE <<b.segments[((b.head_index + position) % Capacity(b)) + 1]>>
         \o IterFrom(b, position + 1)

\* iter(): a fresh iterator at position 0, collected
Iter(b) == IterFrom(b, 0)

(***************************************************************************)
(* The abstract bounded FIFO the buffer is compared with.                  *)
(***************************************************************************)
FifoPush(q, cap, value) == IF Len(q) < cap THEN Append(q, value) ELSE q

FifoForcePush(q, cap, value) ==
    IF Len(q) < cap THEN Append(q, value) ELSE Append(Tail(q), value)

FifoPop(q) == IF q = <<>> THEN q ELSE Tail(q)

(***************************************************************************)
(* The calls on the CyclicBuffer.                                          *)
(***************************************************************************)
Assign(b) ==
    /\ segments' = b.segments
    /\ head_index' = b.head_index
    /\ beyond_tail_index' = b.beyond_tail_index
    /\ empty' = b.empty

CallPush(value) ==
    /\ calls < MaxCalls
    /\ LET r == Push(Self, value)
       IN  /\ Assign(r[1])
           /\ last' = [op |-> "push", value |-> value, ok |-> r[2], ret |-> None]
           /\ pushed' = IF r[2] THEN pushed + 1 ELSE pushed
    /\ pre' = Self
    /\ fifo' = FifoPush(fifo, Capacity(Self), value)
    /\ calls' = calls + 1
    /\ UNCHANGED <<popped, forced>>

CallForcePush(value) ==
    /\ calls < MaxCalls
    /\ Assign(ForcePush(Self, value))
    /\ last' = [op |-> "force_push", value |-> value, ok |-> TRUE, ret |-> None]
    /\ pre' = Self
    /\ fifo' = FifoForcePush(fifo, Capacity(Self), value)
    /\ forced' = forced + 1
    /\ calls' = calls + 1
    /\ UNCHANGED <<pushed, popped>>

CallPop ==
    /\ calls < MaxCalls
    /\ LET r == Pop(Self)
       IN  /\ Assign(r[1])
           /\ last' = [op |-> "pop", value |-> DefaultValue, ok |-> TRUE, ret |-> r[2]]
           /\ popped' = IF r[2] # None THEN popped + 1 ELSE popped
    /\ pre' = Self
    /\ fifo' = FifoPop(fifo)
    /\ calls' = calls + 1
    /\ UNCHANGED <<pushed, forced>>

\* CyclicBuffer::<u32>::new(max_size), max_size >= 1
InitBuffer ==
    /\ \E max_size \in 1..MaxCapacity :
          /\ segments = BufferNew(max_size).segments
          /\ pre = BufferNew(max_size)
    /\ head_index = 0
    /\ beyond_tail_index = 0
    /\ empty = TRUE
    /\ last = [op |-> "new", value |-> DefaultValue, ok |-> TRUE, ret |-> None]
    /\ fifo = <<>>
    /\ pushed = 0
    /\ popped = 0
    /\ forced = 0
    /\ calls = 0

\* no FrameBuffer is in use
NoFrameBuffer ==
    /\ dimensions = [x |-> 0, y |-> 0]
    /\ buffer1 = <<>>
    /\ buffer2 = <<>>
    /\ buffer1_is_front = TRUE
    /\ stdout = <<>>
    /\ term = <<>>
    /\ prev = <<>>
    /\ sets = 0
    /\ swaps = 0
    /\ panicked = FALSE
    /\ lastfb = <<>>

\* no encoder is being called
NoEncoder == enc = <<>>

\* no input thread, channel or main loop
NoInput ==
    /\ channel = <<>>
    /\ sent = <<>>
    /\ received = <<>>
    /\ drained = <<>>
    /\ main_pc = "none"
    /\ direction = <<>>
    /\ snake_direction = "Right"

\* no random number engine is in use
NoRng ==
    /\ rng = <<>>
    /\ twin = <<>>
    /\ lastrng = <<>>

\* no game is being played
NoGame ==
    /\ field_dimensions = [x |-> 0, y |-> 0]
    /\ food = [x |-> 0, y |-> 0]
    /\ game_pc = "none"
    /\ score = 0
    /\ speed = 0
    /\ lastfood = <<>>
    /\ ticks = 0

Init == InitBuffer /\ NoFrameBuffer /\ NoEncoder /\ NoInput /\ NoRng /\ NoGame

Next ==
    \/ \E value \in Values :
          CallPush(value) /\ UNCHANGED <<fbVars, encVars, inVars, rngVars, gameVars>>
    \/ \E value \in Values :
          CallForcePush(value) /\ UNCHANGED <<fbVars, encVars, inVars, rngVars, gameVars>>
    \/ CallPop /\ UNCHANGED <<fbVars, encVars, inVars, rngVars, gameVars>>

Spec == Init /\ [][Next]_vars

(***************************************************************************)
(* Properties of the CyclicBuffer, checked under Spec.                     *)
(***************************************************************************)

\* C1: push returns false exactly when count() == capacity() immediately
\* before the call and true in every other state, after any sequence of
\* push, force_push and pop.
C1_PushFalseIffFull ==
    last.op = "push" => (last.ok = FALSE <=> Count(pre) = Capacity(pre))

\* a rejected push on a buffer that was filled by force_push after pops
C1_Witness ==
    /\ last.op = "push" /\ ~last.ok
    /\ forced > 0 /\ popped > 0 /\ pushed > 0
    /\ Capacity(pre) = 3

\* C2: a push that returns false mutates nothing: head index, one-past-tail
\* index, empty flag, the slots, count() and the sequence of iter() are the
\* same as before the call.
C2_RejectedPushMutatesNothing ==
    (last.op = "push" /\ ~last.ok) =>
        /\ head_index = pre.head_index
        /\ beyond_tail_index = pre.beyond_tail_index
        /\ empty = pre.empty
        /\ segments = pre.segments
        /\ Count(Self) = Count(pre)
        /\ Iter(Self) = Iter(pre)

\* a rejected push on a full buffer whose head is not slot 0
C2_Witness ==
    /\ last.op = "push" /\ ~last.ok
    /\ pre.head_index # 0
    /\ Capacity(pre) >= 2

\* C3: iter() yields exactly the held elements, oldest first, whatever the
\* positions of head and tail: it equals the abstract bounded FIFO driven
\* by the same calls.
C3_IterIsFifo == Iter(Self) = fifo

\* capacity 3: push 1, 2, 3 then force_push(4) iterates as 2, 3, 4
C3_Witness ==
    /\ Capacity(Self) = 3
    /\ last.op = "force_push"
    /\ Iter(pre) = <<1, 2, 3>>
    /\ Iter(Self) = <<2, 3, 4>>

\* C4: over push and pop calls alone, count() is the number of pushes that
\* returned true minus the number of pops that returned a value; and count()
\* always is the number of elements logically held.
C4_CountIsPushesMinusPops ==
    /\ forced = 0 => Count(Self) = pushed - popped
    /\ Count(Self) = Len(fifo)

\* push and pop only, the indices have wrapped around and the buffer is full
C4_Witness ==
    /\ forced = 0 /\ pushed >= 4 /\ popped >= 1
    /\ beyond_tail_index = head_index /\ head_index # 0
    /\ Count(Self) = 3

\* C5: force_push always leaves count() == min(capacity(), previous count() + 1).
C5_ForcePushCount ==
    last.op = "force_push" =>
        Count(Self) = Min(Capacity(pre), Count(pre) + 1)

\* a force_push on a full buffer of capacity 3 whose head is not slot 0
C5_Witness ==
    /\ last.op = "force_push"
    /\ Count(pre) = Capacity(pre)
    /\ Capacity(pre) = 3
    /\ pre.head_index # 0

\* C6: force_push(v) on a full buffer holding e1..en leaves e2..en, v; on a
\* buffer that is not full it does what a successful push does.
C6_ForcePushContents ==
    last.op = "force_push" =>
        IF Full(pre)
        THEN Iter(Self) = Append(Tail(Iter(pre)), last.value)
        ELSE /\ Iter(Self) = Append(Iter(pre), last.value)
             /\ Self = Push(pre, last.value)[1]
             /\ Push(pre, last.value)[2]

\* a force_push on a full buffer with three distinct elements, wrapped
C6_Witness ==
    /\ last.op = "force_push"
    /\ Full(pre)
    /\ Capacity(pre) = 3
    /\ pre.head_index = 2
    /\ Cardinality({Iter(pre)[k] : k \in 1..3} \cup {last.value}) = 4

\* C7: pop on a non-empty buffer returns the oldest element, the first that
\* iter() yields, and removes only it: the rest keeps its order.
C7_PopReturnsOldest ==
    (last.op = "pop" /\ ~pre.empty) =>
        /\ last.ret = Some(Head(Iter(pre)))
        /\ Iter(Self) = Tail(Iter(pre))

\* a pop from a buffer whose elements lie across the end of the array
C7_Witness ==
    /\ last.op = "pop"
    /\ Count(pre) >= 2
    /\ pre.beyond_tail_index <= pre.head_index
    /\ pre.beyond_tail_index # 0
    /\ Iter(pre)[1] # Iter(pre)[2]

\* C8: pop on an empty buffer returns None and leaves head index,
\* one-past-tail index, empty flag and contents unchanged; right after a pop
\* that removes the last held element empty() is true and count() is 0.
C8_PopEmptyAndLast ==
    /\ (last.op = "pop" /\ pre.empty) =>
          /\ last.ret = None
          /\ head_index = pre.head_index
          /\ beyond_tail_index = pre.beyond_tail_index
          /\ empty = pre.empty
          /\ segments = pre.segments
    /\ (last.op = "pop" /\ Count(pre) = 1) =>
          /\ last.ret # None
          /\ Empty(Self)
          /\ Count(Self) = 0

\* a pop on a buffer that earlier pops have drained, head not at slot 0
C8_Witness ==
    /\ last.op = "pop"
    /\ pre.empty
    /\ popped > 0
    /\ pre.head_index # 0

(***************************************************************************)
(* Pixel, Color, Matrix2<Pixel>                                            *)
(***************************************************************************)
Colors == {"Default", "White", "Black", "Red", "Green", "Blue", "Yellow"}

\* Color::default()
ColorDefault == "Default"

\* characters are Unicode scalar values; ' ' is the one of Pixel::default()
CharSpace == 32

\* U+2588
WALL_CHAR == 9608

\* Pixel::default()
PixelDefault == [character |-> CharSpace, color |-> ColorDefault]

\* Matrix2::new
Matrix2New(dim) ==
    [dimensions |-> dim, values |-> [k \in 1..(dim.x * dim.y) |-> PixelDefault]]

\* the bounds check of values[y * dimensions.x + x] in get and set:
\* the index is checked against the length of the Vec, nothing else is
Matrix2IndexOk(m, x, y) == y * m.dimensions.x + x < Len(m.values)

\* Matrix2::get, when the index passes the bounds check
Matrix2Get(m, x, y) == m.values[y * m.dimensions.x + x + 1]

\* Matrix2::set, when the index passes the bounds check
Matrix2Set(m, x, y, value) ==
    [m EXCEPT !.values[y * m.dimensions.x + x + 1] = value]

\* Matrix2::clear
Matrix2ClearMutant(m) == m

Matrix2Clear(m) ==
    [m EXCEPT !.values = [k \in DOMAIN m.values |-> PixelDefault]]

(***************************************************************************)
(* The encoders of terminal.rs: each returns the bytes it writes.          *)
(***************************************************************************)
ESC == 27

\* usize::to_string as ASCII digits
RECURSIVE UsizeToStringMutant(_)
UsizeToStringMutant(n) ==
    IF n < 10 THEN <<48 + n>>
    ELSE <<48 + (n % 10)>> \o UsizeToStringMutant(n \div 10)

RECURSIVE UsizeToString(_)
UsizeToString(n) ==
    IF n < 10 THEN <<48 + n>> ELSE UsizeToString(n \div 10) \o <<48 + (n % 10)>>

\* char::encode_utf8
EncodeUtf8(c) ==
    IF c < 128 THEN <<c>>
    ELSE IF c < 2048 THEN <<192 + (c \div 64), 128 + (c % 64)>>
    ELSE IF c < 65536
         THEN <<224 + (c \div 4096), 128 + ((c \div 64) % 64), 128 + (c % 64)>>
         ELSE <<240 + (c \div 262144), 128 + ((c \div 4096) % 64),
                128 + ((c \div 64) % 64), 128 + (c % 64)>>

\* the color_code table of Color::encode_ascii
ColorCode(color) ==
    CASE color = "Default" -> <<48>>
      [] color = "White" -> <<51, 55>>
      [] color = "Black" -> <<51, 48>>
      [] color = "Red" -> <<51, 49>>
      [] color = "Green" -> <<51, 50>>
      [] color = "Blue" -> <<51, 52>>
      [] color = "Yellow" -> <<51, 51>>

ColorEncodeAscii(color) == <<ESC, 91>> \o ColorCode(color) \o <<109>>

PixelEncodeAscii(pixel) == EncodeUtf8(pixel.character)

PositionEncodeAsciiMutant(position) ==
    <<ESC, 91>> \o UsizeToString(position.x + 1) \o <<59>>
                \o UsizeToString(position.y + 1) \o <<72>>

PositionEncodeAscii(position) ==
    <<ESC, 91>> \o UsizeToString(position.y + 1) \o <<59>>
                \o UsizeToString(position.x + 1) \o <<72>>

(***************************************************************************)
(* FrameBuffer                                                             *)
(***************************************************************************)
\* the (front_buffer, back_buffer) match of update_command_cache
FrontBuffer == IF buffer1_is_front THEN buffer1 ELSE buffer2

\* back_buffer(), and the back_buffer of update_command_cache
BackBufferMutant == IF buffer1_is_front THEN buffer1 ELSE buffer2

BackBuffer == IF buffer1_is_front THEN buffer2 ELSE buffer1

\* command_cache_size
CommandCacheSizeMutant(dim) == dim.x * dim.y * (4 + 5)

CommandCacheSize(dim) == dim.x * dim.y * (4 + 5 + 10)

\* the condition under which the loop writes a cursor move (lines 66-67)
NeedsMoveMutant(pixel1, pixel2, position, last_position) ==
    position.y # last_position.y \/ position.x # last_position.x + 1

NeedsMove(pixel1, pixel2, position, last_position) ==
    /\ pixel1 # pixel2
    /\ (position.y # last_position.y \/ position.x # last_position.x + 1)

\* the locals of update_command_cache before the loop (lines 60-63);
\* command_cache is the written prefix command_cache[0..i], so i is its length
LoopStart ==
    [position |-> [x |-> 0, y |-> 0],
     last_position |-> [x |-> 0, y |-> 0],
     last_color |-> ColorDefault,
     command_cache |-> <<>>]

\* one pass through the loop body (lines 65-86)
LoopBodyMutant(l, pixel1, pixel2, dim) ==
    LET moved ==
            IF NeedsMove(pixel1, pixel2, l.position, l.last_position)
            THEN [l EXCEPT !.command_cache = @ \o PositionEncodeAscii(l.position)]
            ELSE l
        color_differs == pixel1.color # pixel2.color
        colored ==
            IF color_differs /\ pixel1.color # moved.last_color
            THEN [moved EXCEPT !.command_cache = @ \o ColorEncodeAscii(pixel1.color),
                               !.last_color = pixel1.color]
            ELSE moved
        force_draw_char == color_differs /\ pixel1.color # moved.last_color
        drawn ==
            IF force_draw_char \/ pixel1.character # pixel2.character
            THEN [colored EXCEPT !.command_cache = @ \o PixelEncodeAscii(pixel1),
                                 !.last_position = l.position]
            ELSE colored
        x1 == l.position.x + 1
    IN  [drawn EXCEPT !.position =
            IF x1 = dim.x THEN [x |-> 0, y |-> l.position.y + 1]
            ELSE [x |-> x1, y |-> l.position.y]]

LoopBody(l, pixel1, pixel2, dim) ==
    LET moved ==
            IF NeedsMove(pixel1, pixel2, l.position, l.last_position)
            THEN [l EXCEPT !.command_cache = @ \o PositionEncodeAscii(l.position)]
            ELSE l
        color_differs == pixel1.color # pixel2.color
        colored ==
            IF color_differs /\ pixel1.color # moved.last_color
            THEN [moved EXCEPT !.command_cache = @ \o ColorEncodeAscii(pixel1.color),
                               !.last_color = pixel1.color]
            ELSE moved
        force_draw_char == color_differs
        drawn ==
            IF force_draw_char \/ pixel1.character # pixel2.character
            THEN [colored EXCEPT !.command_cache = @ \o PixelEncodeAscii(pixel1),
                                 !.last_position = l.position]
            ELSE colored
        x1 == l.position.x + 1
    IN  [drawn EXCEPT !.position =
            IF x1 = dim.x THEN [x |-> 0, y |-> l.position.y + 1]
            ELSE [x |-> x1, y |-> l.position.y]]

\* the loop over front_buffer.iter().zip(back_buffer.iter()), from pair k on
RECURSIVE Loop(_, _, _, _, _)
Loop(l, front, back, dim, k) ==
    IF k > Min(Len(front.values), Len(back.values)) THEN l
    ELSE Loop(LoopBody(l, front.values[k], back.values[k], dim), front, back, dim, k + 1)

\* update_command_cache: the slice command_cache[0..i] it returns
UpdateCommandCache(front, back, dim) == Loop(LoopStart, front, back, dim, 1).command_cache

(***************************************************************************)
(* The terminal that reads stdout: a grid of cells as large as the frame   *)
(* buffer, a cursor and an active color.  It understands the three         *)
(* commands the encoders produce: CSI row ; column H, CSI code m and       *)
(* UTF-8 text.  x = width is the cursor waiting to wrap.                   *)
(***************************************************************************)
\* after terminal::reset(): blank, cursor top-left, default color
TermReset(dim) ==
    [display |-> Matrix2New(dim).values, x |-> 0, y |-> 0, color |-> ColorDefault]

TermColor(code, current) ==
    CASE code = 0 -> "Default"
      [] code = 37 -> "White"
      [] code = 30 -> "Black"
      [] code = 31 -> "Red"
      [] code = 32 -> "Green"
      [] code = 34 -> "Blue"
      [] code = 33 -> "Yellow"
      [] OTHER -> current

\* a character arrives: wrap or scroll if needed, write, advance
TermPut(t, dim, c) ==
    LET wrap == t.x >= dim.x
        scroll == wrap /\ t.y + 1 >= dim.y
        x == IF wrap THEN 0 ELSE t.x
        y == IF scroll THEN dim.y - 1 ELSE IF wrap THEN t.y + 1 ELSE t.y
        shown ==
            IF scroll
            THEN [k \in DOMAIN t.display |->
                    IF k + dim.x \in DOMAIN t.display
                    THEN t.display[k + dim.x] ELSE PixelDefault]
            ELSE t.display
    IN  [t EXCEPT !.display = [shown EXCEPT ![y * dim.x + x + 1] =
                                  [character |-> c, color |-> t.color]],
                  !.x = x + 1,
                  !.y = y]

\* the decimal number starting at bytes[k]: <<value, index after it>>
RECURSIVE TermNumber(_, _, _)
TermNumber(bytes, k, acc) ==
    IF k <= Len(bytes) /\ bytes[k] >= 48 /\ bytes[k] <= 57
    THEN TermNumber(bytes, k + 1, acc * 10 + (bytes[k] - 48))
    ELSE <<acc, k>>

\* length of the UTF-8 sequence that starts with byte b
Utf8Len(b) == IF b < 128 THEN 1 ELSE IF b < 224 THEN 2 ELSE IF b < 240 THEN 3 ELSE 4

\* the scalar value of the UTF-8 sequence of length n at bytes[k]
DecodeUtf8(bytes, k, n) ==
    CASE n = 1 -> bytes[k]
      [] n = 2 -> (bytes[k] - 192) * 64 + (bytes[k + 1] - 128)
      [] n = 3 -> (bytes[k] - 224) * 4096 + (bytes[k + 1] - 128) * 64
                  + (bytes[k + 2] - 128)
      [] n = 4 -> (bytes[k] - 240) * 262144 + (bytes[k + 1] - 128) * 4096
                  + (bytes[k + 2] - 128) * 64 + (bytes[k + 3] - 128)

\* the terminal after reading bytes[k..]
RECURSIVE TermFeed(_, _, _, _)
TermFeed(t, dim, bytes, k) ==
    IF k > Len(bytes) THEN t
    ELSE IF bytes[k] = ESC /\ k < Len(bytes) /\ bytes[k + 1] = 91
    THEN LET first == TermNumber(bytes, k + 2, 0)
             final == IF first[2] <= Len(bytes) THEN bytes[first[2]] ELSE 0
         IN  IF final = 109
             THEN TermFeed([t EXCEPT !.color = TermColor(first[1], t.color)],
                           dim, bytes, first[2] + 1)
             ELSE IF final = 59
             THEN LET second == TermNumber(bytes, first[2] + 1, 0)
                  IN  TermFeed([t EXCEPT !.x = Min(second[1], dim.x) - 1,
                                         !.y = Min(first[1], dim.y) - 1],
                               dim, bytes, second[2] + 1)
             ELSE TermFeed(t, dim, bytes, first[2] + 1)
    ELSE LET n == Utf8Len(bytes[k])
         IN  TermFeed(TermPut(t, dim, DecodeUtf8(bytes, k, n)), dim, bytes, k + n)

(***************************************************************************)
(* The calls on the FrameBuffer.                                           *)
(***************************************************************************)
\* the pixels the caller paints with: 'a' is 97, 'b' is 98
PaintPixels ==
    {[character |-> 97, color |-> "Default"],
     [character |-> 97, color |-> "Red"],
     [character |-> 98, color |-> "Red"],
     [character |-> WALL_CHAR, color |-> "Yellow"]}

\* the record of a call on the FrameBuffer: ret is "ok" when it returned,
\* "panic" when it panicked; back is the back buffer before the call
FbCall(op, x, y, value, sink, ret) ==
    [op |-> op, x |-> x, y |-> y, value |-> value, sink |-> sink, ret |-> ret,
     back |-> BackBuffer.values]

\* frame_buffer.back_buffer().set(x, y, value)
CallSet(x, y, value) ==
    /\ ~panicked
    /\ sets < MaxSets
    /\ IF Matrix2IndexOk(BackBuffer, x, y)
       THEN /\ IF buffer1_is_front
               THEN buffer2' = Matrix2Set(buffer2, x, y, value) /\ UNCHANGED buffer1
               ELSE buffer1' = Matrix2Set(buffer1, x, y, value) /\ UNCHANGED buffer2
            /\ lastfb' = FbCall("set", x, y, value, "ok", "ok")
            /\ UNCHANGED panicked
       ELSE /\ panicked' = TRUE
            /\ lastfb' = FbCall("set", x, y, value, "ok", "panic")
            /\ UNCHANGED <<buffer1, buffer2>>
    /\ sets' = sets + 1
    /\ UNCHANGED <<dimensions, buffer1_is_front, stdout, term, prev, swaps>>

\* frame_buffer.back_buffer().get(x, y)
CallGet(x, y) ==
    /\ ~panicked
    /\ sets < MaxSets
    /\ IF Matrix2IndexOk(BackBuffer, x, y)
       THEN /\ lastfb' = FbCall("get", x, y, Matrix2Get(BackBuffer, x, y), "ok", "ok")
            /\ UNCHANGED panicked
       ELSE /\ panicked' = TRUE
            /\ lastfb' = FbCall("get", x, y, PixelDefault, "ok", "panic")
    /\ sets' = sets + 1
    /\ UNCHANGED <<dimensions, buffer1, buffer2, buffer1_is_front,
                   stdout, term, prev, swaps>>

\* what stdout does with the bytes of a swap
Sinks == {"ok", "write_fails", "flush_fails"}

\* frame_buffer.swap_buffers(): write_all(..).unwrap() and flush().unwrap()
\* panic when stdout fails, before the back buffer is cleared
CallSwapBuffers(sink) ==
    /\ ~panicked
    /\ swaps < MaxSwaps
    /\ buffer1_is_front' = ~buffer1_is_front
    /\ LET front == BackBuffer
           back == FrontBuffer
           command_cache == UpdateCommandCache(front, back, dimensions)
       IN  IF sink = "ok"
           THEN /\ stdout' = command_cache
                /\ term' = TermFeed(term, dimensions, command_cache, 1)
                /\ prev' = [term |-> term, front |-> back.values]
                /\ IF buffer1_is_front
                   THEN buffer1' = Matrix2Clear(buffer1) /\ UNCHANGED buffer2
                   ELSE buffer2' = Matrix2Clear(buffer2) /\ UNCHANGED buffer1
                /\ swaps' = swaps + 1
                /\ lastfb' = FbCall("swap", 0, 0, PixelDefault, sink, "ok")
                /\ UNCHANGED panicked
           ELSE /\ stdout' = IF sink = "flush_fails" THEN command_cache ELSE stdout
                /\ panicked' = TRUE
                /\ lastfb' = FbCall("swap", 0, 0, PixelDefault, sink, "panic")
                /\ UNCHANGED <<term, prev, buffer1, buffer2, swaps>>
    /\ UNCHANGED <<dimensions, sets>>

\* FrameBuffer::new(&dimensions) on a terminal that was just reset
InitFrameBuffer ==
    /\ dimensions \in {d \in [x : 1..MaxWidth, y : 1..MaxHeight] : d.x * d.y <= MaxCells}
    /\ buffer1 = Matrix2New(dimensions)
    /\ buffer2 = Matrix2New(dimensions)
    /\ buffer1_is_front = TRUE
    /\ stdout = <<>>
    /\ term = TermReset(dimensions)
    /\ prev = [term |-> TermReset(dimensions), front |-> Matrix2New(dimensions).values]
    /\ sets = 0
    /\ swaps = 0
    /\ panicked = FALSE
    /\ lastfb = [op |-> "new", x |-> 0, y |-> 0, value |-> PixelDefault,
                 sink |-> "ok", ret |-> "ok", back |-> Matrix2New(dimensions).values]

\* no CyclicBuffer is in use
NoBuffer ==
    /\ segments = <<>>
    /\ head_index = 0
    /\ beyond_tail_index = 0
    /\ empty = TRUE
    /\ pre = <<>>
    /\ last = <<>>
    /\ fifo = <<>>
    /\ pushed = 0
    /\ popped = 0
    /\ forced = 0
    /\ calls = 0

InitFB == InitFrameBuffer /\ NoBuffer /\ NoEncoder /\ NoInput /\ NoRng /\ NoGame

\* x and y range one past the last column and row
NextFB ==
    \/ \E x \in 0..dimensions.x, y \in 0..dimensions.y, value \in PaintPixels :
          CallSet(x, y, value) /\ UNCHANGED <<cbVars, encVars, inVars, rngVars, gameVars>>
    \/ \E x \in 0..dimensions.x, y \in 0..dimensions.y :
          CallGet(x, y) /\ UNCHANGED <<cbVars, encVars, inVars, rngVars, gameVars>>
    \/ \E sink \in Sinks :
          CallSwapBuffers(sink) /\ UNCHANGED <<cbVars, encVars, inVars, rngVars, gameVars>>

SpecFB == InitFB /\ [][NextFB]_vars

(***************************************************************************)
(* Properties of the FrameBuffer, checked under SpecFB.                    *)
(***************************************************************************)

\* C9: applying the bytes of a swap to a terminal that displays the previous
\* front grid, with cursor and active color carried over from the earlier
\* swaps, gives a display equal cell for cell to the new front grid.
C9_DisplayEqualsFront ==
    (swaps > 0 /\ ~panicked /\ prev.term.display = prev.front) =>
        term.display = FrontBuffer.values

\* C10: if the painted grid equals the front grid cell for cell, swap_buffers
\* emits a zero-length command stream.
C10_EqualGridsEmitNothing ==
    (swaps > 0 /\ ~panicked /\ FrontBuffer.values = prev.front) => stdout = <<>>

\* the second swap of a 3 x 2 grid repainted exactly as it was, not blank
C10_Witness ==
    /\ swaps = 2
    /\ ~panicked
    /\ dimensions = [x |-> 3, y |-> 2]
    /\ FrontBuffer.values = prev.front
    /\ Cardinality({k \in DOMAIN prev.front : prev.front[k] # PixelDefault}) >= 1
    /\ stdout = <<>>

\* the cells, as indices into values, in which the new front grid differs
\* from the grid that was the front before the last swap
DiffCells ==
    {k \in DOMAIN FrontBuffer.values : FrontBuffer.values[k] # prev.front[k]}

\* C11: when exactly the cell (x=2, y=1) differs, changing from {'a', Default}
\* to {'b', Red}, the stream is ESC [ 2 ; 3 H, then ESC [ 3 1 m, then 'b',
\* and nothing else.
C11_SingleCellStream ==
    (/\ swaps > 0 /\ ~panicked
     /\ dimensions.x >= 3 /\ dimensions.y >= 2
     /\ DiffCells = {dimensions.x + 3}
     /\ prev.front[dimensions.x + 3] = [character |-> 97, color |-> "Default"]
     /\ FrontBuffer.values[dimensions.x + 3] = [character |-> 98, color |-> "Red"])
    => stdout = <<27, 91, 50, 59, 51, 72, 27, 91, 51, 49, 109, 98>>

\* the second swap of a 3 x 2 grid in which (2, 1) went from 'a' to red 'b'
C11_Witness ==
    /\ swaps = 2 /\ ~panicked
    /\ dimensions = [x |-> 3, y |-> 2]
    /\ DiffCells = {6}
    /\ prev.front[6] = [character |-> 97, color |-> "Default"]
    /\ FrontBuffer.values[6] = [character |-> 98, color |-> "Red"]
    /\ Len(stdout) = 12

\* the position of the cell with index k of values
CellPosition(k) ==
    [x |-> (k - 1) % dimensions.x, y |-> (k - 1) \div dimensions.x]

\* C12: when exactly two cells differ, horizontally adjacent in one row, and
\* both change character but not color, the stream is one cursor move to the
\* left cell followed by the two new characters; for every position of the pair.
C12_AdjacentPairStream ==
    \A k \in DOMAIN FrontBuffer.values :
        (/\ swaps > 0 /\ ~panicked
         /\ DiffCells = {k, k + 1}
         /\ CellPosition(k).y = CellPosition(k + 1).y
         /\ \A c \in {k, k + 1} :
               /\ FrontBuffer.values[c].character # prev.front[c].character
               /\ FrontBuffer.values[c].color = prev.front[c].color)
        => stdout = PositionEncodeAscii(CellPosition(k))
                    \o PixelEncodeAscii(FrontBuffer.values[k])
                    \o PixelEncodeAscii(FrontBuffer.values[k + 1])

C14_SinkFailureIsReturned ==
    (lastfb.op = "swap" /\ lastfb.sink # "ok") =>
        (lastfb.ret = "err" /\ ~panicked)

\* C15: after every completed swap_buffers every cell of the grid that
\* back_buffer() returns is the default cell.
C15_BackBufferIsBlank ==
    (lastfb.op = "swap" /\ lastfb.ret = "ok") =>
        \A k \in DOMAIN BackBuffer.values : BackBuffer.values[k] = PixelDefault

\* right after the second swap; the grid that is now the back buffer had
\* been painted in the first cycle and shown since
C15_Witness ==
    /\ lastfb.op = "swap" /\ lastfb.ret = "ok"
    /\ swaps = 2
    /\ \E k \in DOMAIN prev.front : prev.front[k] # PixelDefault
    /\ \E k \in DOMAIN FrontBuffer.values : FrontBuffer.values[k] # PixelDefault

\* C16: every get(x, y) or set(x, y, v) with x >= width or y >= height is a
\* fatal failure and neither reads nor writes a cell of the grid.
C16_OutOfRangeIsFatal ==
    (/\ lastfb.op \in {"get", "set"}
     /\ (lastfb.x >= dimensions.x \/ lastfb.y >= dimensions.y))
    => (lastfb.ret = "panic" /\ BackBuffer.values = lastfb.back)

\* the commands and characters of a byte stream from bytes[k] on: a cursor
\* move carries the 0-based column a and row b, a color-set its code a, a
\* character its scalar value a
RECURSIVE Tokens(_, _)
Tokens(bytes, k) ==
    IF k > Len(bytes) THEN <<>>
    ELSE IF bytes[k] = ESC /\ k < Len(bytes) /\ bytes[k + 1] = 91
    THEN LET first == TermNumber(bytes, k + 2, 0)
             final == IF first[2] <= Len(bytes) THEN bytes[first[2]] ELSE 0
         IN  IF final = 59
             THEN LET second == TermNumber(bytes, first[2] + 1, 0)
                  IN  <<[kind |-> "move", a |-> second[1] - 1, b |-> first[1] - 1]>>
                      \o Tokens(bytes, second[2] + 1)
             ELSE <<[kind |-> "color", a |-> first[1], b |-> 0]>>
                  \o Tokens(bytes, first[2] + 1)
    ELSE LET n == Utf8Len(bytes[k])
         IN  <<[kind |-> "char", a |-> DecodeUtf8(bytes, k, n), b |-> 0]>>
             \o Tokens(bytes, k + n)

\* the stream of the last swap, as commands and characters
Stream == Tokens(stdout, 1)

\* the places in a stream of its characters, in order
CharTokensOf(stream) ==
    SelectSeq([t \in 1..Len(stream) |-> t], LAMBDA t : stream[t].kind = "char")

CharTokens == CharTokensOf(Stream)

\* a swap_buffers call has just returned
Swapped == lastfb.op = "swap" /\ lastfb.ret = "ok"

\* the differing cells in raster order
DiffSeq ==
    SelectSeq([k \in 1..Len(FrontBuffer.values) |-> k], LAMBDA k : k \in DiffCells)

\* the place in Stream of what precedes the character at t, a color-set
\* right before it not counted; 0 if nothing precedes
Before(t) == IF t > 1 /\ Stream[t - 1].kind = "color" THEN t - 2 ELSE t - 1

\* C21: the i-th character of the stream of a swap, which is the character of
\* the i-th differing cell (x, y), is preceded, with at most one color-set in
\* between, by a cursor move to (x, y) or by the character of cell (x-1, y).
C21_CharacterLandsOnItsCell ==
    (swaps > 0 /\ ~panicked) =>
        \A i \in 1..Min(Len(CharTokens), Len(DiffSeq)) :
            LET q == Before(CharTokens[i])
                cell == CellPosition(DiffSeq[i])
            IN  /\ q >= 1
                /\ \/ Stream[q] = [kind |-> "move", a |-> cell.x, b |-> cell.y]
                   \/ /\ Stream[q].kind = "char"
                      /\ i > 1
                      /\ cell.x > 0
                      /\ DiffSeq[i - 1] = DiffSeq[i] - 1

\* the active color of the terminal when it reads Stream[t], having had
\* color current before Stream[1]
RECURSIVE ColorAt(_, _, _)
ColorAt(t, from, current) ==
    IF from >= t THEN current
    ELSE ColorAt(t, from + 1,
                 IF Stream[from].kind = "color"
                 THEN TermColor(Stream[from].a, current) ELSE current)

\* C22: when the terminal reads the character of a differing cell, its active
\* color, carried over from the earlier swaps and changed by the color-sets of
\* this one, is the color of that cell in the new front grid.
C22_CharacterInItsColor ==
    (swaps > 0 /\ ~panicked) =>
        \A i \in 1..Min(Len(CharTokens), Len(DiffSeq)) :
            ColorAt(CharTokens[i], 1, prev.term.color)
                = FrontBuffer.values[DiffSeq[i]].color

\* C23: the characters of the stream of a swap are the new characters of the
\* differing cells, one per cell in raster order, and no others; a cell whose
\* color alone changed is among them, with or without a color-set.
C23_OneCharacterPerDifferingCell ==
    Swapped =>
        LET stream == Stream
            chars == CharTokensOf(stream)
            diff == DiffSeq
        IN  /\ Len(chars) = Len(diff)
            /\ \A i \in 1..Len(diff) :
                  stream[chars[i]].a = FrontBuffer.values[diff[i]].character

\* the second swap redraws a glyph that only went from red to the default
\* color, for which no color-set is written
C23_Witness ==
    /\ Swapped
    /\ swaps = 2
    /\ Len(DiffSeq) = 1
    /\ FrontBuffer.values[DiffSeq[1]] = [character |-> 97, color |-> "Default"]
    /\ prev.front[DiffSeq[1]] = [character |-> 97, color |-> "Red"]
    /\ \A t \in 1..Len(Stream) : Stream[t].kind # "color"
    /\ Len(CharTokens) = 1

\* C24: a get or set through back_buffer() leaves the front grid and the roles
\* as they are; a completed swap exchanges the roles, makes the grid painted
\* since the last swap the front, and diffs it against the grid that was the
\* front until then, which is blank at the first swap.
C24_RolesAlternate ==
    [][/\ lastfb'.op \in {"set", "get"} =>
             /\ FrontBuffer' = FrontBuffer
             /\ buffer1_is_front' = buffer1_is_front
       /\ (lastfb'.op = "swap" /\ lastfb'.ret = "ok") =>
             /\ buffer1_is_front' = ~buffer1_is_front
             /\ FrontBuffer'.values = BackBuffer.values
             /\ prev'.front = FrontBuffer.values
             /\ swaps = 0 => \A k \in DOMAIN prev'.front : prev'.front[k] = PixelDefault]_vars

\* after the second swap: the front is the grid painted in the second cycle,
\* the grid diffed against is the one painted in the first, and they differ
C24_Witness ==
    /\ lastfb.op = "swap" /\ lastfb.ret = "ok"
    /\ swaps = 2
    /\ FrontBuffer.values = lastfb.back
    /\ \E k \in DOMAIN prev.front : prev.front[k] # PixelDefault
    /\ FrontBuffer.values # prev.front
    /\ buffer1_is_front

(***************************************************************************)
(* The representation of the CyclicBuffer, checked under Spec.             *)
(***************************************************************************)

\* C25: in every state of a CyclicBuffer of capacity >= 1 both indices are
\* below the capacity; the empty flag is set exactly when no element is held,
\* and then the indices are equal; the indices are equal exactly when the
\* buffer is empty or full; empty() and full() are never both true.
C25_RepresentationInvariant ==
    /\ Capacity(Self) >= 1
    /\ head_index < Capacity(Self)
    /\ beyond_tail_index < Capacity(Self)
    /\ Empty(Self) <=> fifo = <<>>
    /\ Empty(Self) => head_index = beyond_tail_index
    /\ (head_index = beyond_tail_index) <=> (Empty(Self) \/ Full(Self))
    /\ Full(Self) <=> Len(fifo) = Capacity(Self)
    /\ ~(Empty(Self) /\ Full(Self))

\* a buffer of capacity 3 that a push has just made full, the indices meeting
\* in the middle of the array after two pops
C25_Witness ==
    /\ Capacity(Self) = 3
    /\ head_index = 2
    /\ beyond_tail_index = 2
    /\ Full(Self)
    /\ last.op = "push"
    /\ pre.beyond_tail_index = 1
    /\ popped >= 2

(***************************************************************************)
(* SpecEnc: one call of an encoder of terminal.rs on a zeroed buffer.      *)
(***************************************************************************)
\* the buffer handed to the encoder: as long as the cache of one cell
EncBuffer == [k \in 1..CommandCacheSize([x |-> 1, y |-> 1]) |-> 0]

\* buffer[0], buffer[1], ... assigned from bytes; the rest is left as it was
WriteInto(buffer, bytes) ==
    [k \in DOMAIN buffer |-> IF k <= Len(bytes) THEN bytes[k] ELSE buffer[k]]

\* characters of one to four UTF-8 bytes
EncChars == {32, 97, 98, 233, WALL_CHAR, 9673, 128512}

EncInput(kind, x, y, color, character) ==
    [state |-> "input", kind |-> kind, x |-> x, y |-> y, color |-> color,
     character |-> character, buffer |-> EncBuffer, ret |-> 0]

InitEncoder ==
    enc \in {EncInput("position", x, y, ColorDefault, CharSpace) :
                x \in 0..MaxCoord, y \in 0..MaxCoord}
            \cup {EncInput("color", 0, 0, color, CharSpace) : color \in Colors}
            \cup {EncInput("pixel", 0, 0, ColorDefault, character) :
                    character \in EncChars}

\* the encoder called with `bytes` to write: it returns their number
EncDone(bytes) ==
    enc' = [enc EXCEPT !.state = "done",
                       !.buffer = WriteInto(enc.buffer, bytes),
                       !.ret = Len(bytes)]

\* Position { x, y }.encode_ascii(&mut buffer)
CallPositionEncodeAscii ==
    /\ enc.state = "input" /\ enc.kind = "position"
    /\ EncDone(PositionEncodeAscii([x |-> enc.x, y |-> enc.y]))

\* color.encode_ascii(&mut buffer)
CallColorEncodeAscii ==
    /\ enc.state = "input" /\ enc.kind = "color"
    /\ EncDone(ColorEncodeAscii(enc.color))

\* Pixel { character, color }.encode_ascii(&mut buffer)
CallPixelEncodeAscii ==
    /\ enc.state = "input" /\ enc.kind = "pixel"
    /\ EncDone(PixelEncodeAscii([character |-> enc.character, color |-> enc.color]))

InitEnc == InitEncoder /\ NoBuffer /\ NoFrameBuffer /\ NoInput /\ NoRng /\ NoGame

NextEnc ==
    \/ CallPositionEncodeAscii /\ UNCHANGED <<cbVars, fbVars, inVars, rngVars, gameVars>>
    \/ CallColorEncodeAscii /\ UNCHANGED <<cbVars, fbVars, inVars, rngVars, gameVars>>
    \/ CallPixelEncodeAscii /\ UNCHANGED <<cbVars, fbVars, inVars, rngVars, gameVars>>

SpecEnc == InitEnc /\ [][NextEnc]_vars

\* C17: the cursor move for the zero-indexed position (x, y) is ESC, '[', the
\* decimal digits of y + 1, ';', the decimal digits of x + 1, 'H', and
\* encode_ascii returns the number of bytes it wrote.
C17_CursorMoveEncoding ==
    (enc.state = "done" /\ enc.kind = "position") =>
        LET b == enc.buffer
            row == TermNumber(b, 3, 0)
            col == TermNumber(b, row[2] + 1, 0)
        IN  /\ b[1] = 27 /\ b[2] = 91
            /\ row[2] > 3 /\ b[3] # 48 /\ row[1] = enc.y + 1
            /\ b[row[2]] = 59
            /\ col[2] > row[2] + 1 /\ b[row[2] + 1] # 48 /\ col[1] = enc.x + 1
            /\ b[col[2]] = 72
            /\ enc.ret = col[2]
            /\ \A k \in DOMAIN b : k > enc.ret => b[k] = 0

\* the move to column 100 of row 10: ESC [ 1 0 ; 1 0 0 H, nine bytes
C17_Witness ==
    /\ enc.state = "done" /\ enc.kind = "position"
    /\ enc.x = 99 /\ enc.y = 9
    /\ enc.ret = 9
    /\ enc.buffer[3] = 49 /\ enc.buffer[4] = 48 /\ enc.buffer[5] = 59

(***************************************************************************)
(* SpecIn: the input thread of main, the mpsc channel, and the main loop   *)
(* calling get_direction_from_stdin and updating snake.direction.          *)
(***************************************************************************)
\* the bytes read from stdin: w, a, s, d, and x for every other byte
InputBytes == {119, 97, 115, 100, 120}

\* one arm of the match in get_direction_from_stdin
MatchByteMutant(byte, current) ==
    CASE byte = 119 -> Some("Up")
      [] byte = 115 -> Some("Down")
      [] byte = 97 -> Some("Left")
      [] byte = 100 -> Some("Right")
      [] OTHER -> None

MatchByte(byte, current) ==
    CASE byte = 119 -> Some("Up")
      [] byte = 115 -> Some("Down")
      [] byte = 97 -> Some("Left")
      [] byte = 100 -> Some("Right")
      [] OTHER -> current

\* Direction::is_opposite
IsOpposite(self, other) ==
    \/ self = "Up" /\ other = "Down"
    \/ self = "Down" /\ other = "Up"
    \/ self = "Left" /\ other = "Right"
    \/ self = "Right" /\ other = "Left"

\* Receiver::try_iter: its next() is try_recv, which returns at once whether
\* or not a byte is queued (recv, behind iter(), waits for one)
TryRecvReturnsMutant(ch) == ch # <<>>

TryRecvReturns(ch) == TRUE

\* the input thread: stdin.read_exact(&mut buffer), then tx.send(buffer[0])
InputThreadSend(byte) ==
    /\ Len(sent) < MaxSent
    /\ channel' = Append(channel, byte)
    /\ sent' = Append(sent, byte)
    /\ UNCHANGED <<received, drained, main_pc, direction, snake_direction>>

\* main calls get_direction_from_stdin: direction = None
MainCallGetDirection ==
    /\ main_pc = "loop"
    /\ main_pc' = "drain"
    /\ direction' = None
    /\ drained' = <<>>
    /\ UNCHANGED <<channel, sent, received, snake_direction>>

\* one turn of `for byte in rx.try_iter()`: either a byte is taken and
\* matched, or the iterator ends, the function returns direction and main
\* updates snake.direction (lines 400-403)
MainTryRecv ==
    /\ main_pc = "drain"
    /\ TryRecvReturns(channel)
    /\ IF channel # <<>>
       THEN /\ channel' = Tail(channel)
            /\ direction' = MatchByte(Head(channel), direction)
            /\ drained' = Append(drained, Head(channel))
            /\ received' = Append(received, Head(channel))
            /\ UNCHANGED <<sent, main_pc, snake_direction>>
       ELSE /\ main_pc' = "loop"
            /\ LET new_direction ==
                       IF direction = None THEN snake_direction ELSE direction[1]
               IN  snake_direction' =
                       IF ~IsOpposite(new_direction, snake_direction)
                       THEN new_direction ELSE snake_direction
            /\ UNCHANGED <<channel, sent, received, drained, direction>>

\* main after the thread is spawned, Snake::new: direction Right
InitInput ==
    /\ channel = <<>>
    /\ sent = <<>>
    /\ received = <<>>
    /\ drained = <<>>
    /\ main_pc = "loop"
    /\ direction = None
    /\ snake_direction = "Right"

InitIn == InitInput /\ NoBuffer /\ NoFrameBuffer /\ NoEncoder /\ NoRng /\ NoGame

NextIn ==
    \/ \E byte \in InputBytes :
          InputThreadSend(byte) /\ UNCHANGED <<cbVars, fbVars, encVars, rngVars, gameVars>>
    \/ MainCallGetDirection /\ UNCHANGED <<cbVars, fbVars, encVars, rngVars, gameVars>>
    \/ MainTryRecv /\ UNCHANGED <<cbVars, fbVars, encVars, rngVars, gameVars>>

SpecIn == InitIn /\ [][NextIn]_vars

\* the direction of the last of w, a, s, d in a sequence of bytes
RECURSIVE LastRecognized(_)
LastRecognized(bytes) ==
    IF bytes = <<>> THEN None
    ELSE LET byte == bytes[Len(bytes)]
         IN  IF byte = 119 THEN Some("Up")
             ELSE IF byte = 115 THEN Some("Down")
             ELSE IF byte = 97 THEN Some("Left")
             ELSE IF byte = 100 THEN Some("Right")
             ELSE LastRecognized(SubSeq(bytes, 1, Len(bytes) - 1))

\* C18: the bytes of the input thread reach the main loop through the
\* channel alone, each taken exactly once and in the order sent; the drain
\* never waits; bytes other than w, a, s, d are ignored; the drain yields the
\* direction of the last recognized byte taken by it, or None.
C18_DrainYieldsLastDirection ==
    /\ sent = received \o channel
    /\ Len(drained) <= Len(received)
    /\ SubSeq(received, Len(received) - Len(drained) + 1, Len(received)) = drained
    /\ direction = LastRecognized(drained)
    /\ main_pc = "drain" => ENABLED MainTryRecv

\* the second drain has returned: it took a, w, x and yields Up
C18_Witness ==
    /\ main_pc = "loop"
    /\ received = <<100, 97, 119, 120>>
    /\ drained = <<97, 119, 120>>
    /\ channel = <<>>
    /\ direction = Some("Up")
    /\ snake_direction = "Up"

(***************************************************************************)
(* PCG32Fast.  A u64 is the sequence of its eight bytes, lowest first, and *)
(* a u32 the sequence of its four bytes, so that no product or sum leaves  *)
(* the range of the integers at hand; all arithmetic is modulo 2^64.       *)
(***************************************************************************)
\* a u64 below 256
U64(n) == <<n, 0, 0, 0, 0, 0, 0, 0>>

\* 6364136223846793005 = 0x5851F42D4C957F2D
MULTIPLIER == <<45, 127, 149, 76, 45, 244, 81, 88>>

\* 0xcafef00dd15ea5e5
DEFAULT_SEED == <<229, 165, 94, 209, 13, 240, 254, 202>>

\* the sum of a[i] * b[k + 1 - i] for i in 1..i
RECURSIVE ColumnSum(_, _, _, _)
ColumnSum(a, b, k, i) ==
    IF i = 0 THEN 0 ELSE a[i] * b[k + 1 - i] + ColumnSum(a, b, k, i - 1)

\* the bytes k..8 of a * b, given the carry into byte k
RECURSIVE MulFrom(_, _, _, _)
MulFrom(a, b, k, carry) ==
    IF k > 8 THEN <<>>
    ELSE LET t == carry + ColumnSum(a, b, k, k)
         IN  <<t % 256>> \o MulFrom(a, b, k + 1, t \div 256)

\* u64::wrapping_mul
WrappingMul(a, b) == MulFrom(a, b, 1, 0)

\* bit n of a u64, 0 for n > 63
Bit(a, n) == IF n > 63 THEN 0 ELSE (a[(n \div 8) + 1] \div (2 ^ (n % 8))) % 2

\* mangle_seed: seed.unwrap_or(DEFAULT_SEED) | 3
MangleSeed(seed) ==
    LET s0 == IF seed = None THEN DEFAULT_SEED ELSE seed[1]
    IN  [s0 EXCEPT ![1] = (@ - (@ % 4)) + 3]

\* the constants of output() for 64 state bits and 32 result bits
OPBITS == 3

XSHIFT == 22

BOTTOMSPARE == 29

MAXRANDSHIFT == 7

\* output: ((state ^ (state >> XSHIFT)) >> (BOTTOMSPARE - MAXRANDSHIFT + rshift)) as u32
PcgOutput(state) ==
    LET rshift == (state[8] \div (2 ^ (8 - OPBITS))) % (MAXRANDSHIFT + 1)
        shift == BOTTOMSPARE - MAXRANDSHIFT + rshift
        xored(n) == (Bit(state, n) + Bit(state, n + XSHIFT)) % 2
        out(m) == IF m + shift > 63 THEN 0 ELSE xored(m + shift)
        byte(j) == out(8 * j) + 2 * out(8 * j + 1) + 4 * out(8 * j + 2)
                   + 8 * out(8 * j + 3) + 16 * out(8 * j + 4) + 32 * out(8 * j + 5)
                   + 64 * out(8 * j + 6) + 128 * out(8 * j + 7)
    IN  <<byte(0), byte(1), byte(2), byte(3)>>

\* PCG32Fast::new
PcgNew(seed) == [state |-> MangleSeed(seed)]

\* seed
PcgSeedMutant(engine, seed) ==
    [engine EXCEPT !.state = IF seed = None THEN DEFAULT_SEED ELSE seed[1]]

PcgSeed(engine, seed) == [engine EXCEPT !.state = MangleSeed(seed)]

\* advance
PcgAdvance(engine) == [engine EXCEPT !.state = WrappingMul(@, MULTIPLIER)]

\* get: <<engine after the call, value returned>>
PcgGet(engine) == <<PcgAdvance(engine), PcgOutput(engine.state)>>

\* discard: for _ in 0..z { advance() }
RECURSIVE PcgDiscardMutant(_, _)
PcgDiscardMutant(engine, z) ==
    IF z = 0 THEN PcgAdvance(engine) ELSE PcgDiscardMutant(PcgAdvance(engine), z - 1)

RECURSIVE PcgDiscard(_, _)
PcgDiscard(engine, z) ==
    IF z = 0 THEN engine ELSE PcgDiscard(PcgAdvance(engine), z - 1)

\* the engine after z calls of get()
RECURSIVE AfterGets(_, _)
AfterGets(engine, z) ==
    IF z = 0 THEN engine ELSE AfterGets(PcgGet(engine)[1], z - 1)

(***************************************************************************)
(* SpecRng: one PCG32Fast driven by get, discard and seed, beside a twin   *)
(* that is constructed by new and advanced by get only.                    *)
(***************************************************************************)
\* the seeds given to new and seed
Seeds == {None} \cup {Some(U64(n)) : n \in 0..MaxSeed}

RngCall(op, seed, z, value, twin_value) ==
    [op |-> op, seed |-> seed, z |-> z, value |-> value, twin_value |-> twin_value,
     before |-> rng, calls |-> IF op = "new" THEN 0 ELSE lastrng.calls + 1]

RngGet ==
    /\ lastrng.calls < MaxRngCalls
    /\ rng' = PcgGet(rng)[1]
    /\ twin' = PcgGet(twin)[1]
    /\ lastrng' = RngCall("get", None, 0, PcgGet(rng)[2], PcgGet(twin)[2])

RngDiscard(z) ==
    /\ lastrng.calls < MaxRngCalls
    /\ rng' = PcgDiscard(rng, z)
    /\ twin' = AfterGets(twin, z)
    /\ lastrng' = RngCall("discard", None, z, <<>>, <<>>)

RngSeed(seed) ==
    /\ lastrng.calls < MaxRngCalls
    /\ rng' = PcgSeed(rng, seed)
    /\ twin' = PcgNew(seed)
    /\ lastrng' = RngCall("seed", seed, 0, <<>>, <<>>)

InitEngine ==
    \E seed \in Seeds :
        /\ rng = PcgNew(seed)
        /\ twin = PcgNew(seed)
        /\ lastrng = [op |-> "new", seed |-> seed, z |-> 0, value |-> <<>>,
                      twin_value |-> <<>>, before |-> PcgNew(seed), calls |-> 0]

InitRng == InitEngine /\ NoBuffer /\ NoFrameBuffer /\ NoEncoder /\ NoInput /\ NoGame

NextRng ==
    \/ RngGet /\ UNCHANGED <<cbVars, fbVars, encVars, inVars, gameVars>>
    \/ \E z \in 0..MaxDiscard :
          RngDiscard(z) /\ UNCHANGED <<cbVars, fbVars, encVars, inVars, gameVars>>
    \/ \E seed \in Seeds :
          RngSeed(seed) /\ UNCHANGED <<cbVars, fbVars, encVars, inVars, gameVars>>

SpecRng == InitRng /\ [][NextRng]_vars

\* the next n values an engine in this state returns from get()
RECURSIVE OutputsFrom(_, _)
OutputsFrom(engine, n) ==
    IF n = 0 THEN <<>>
    ELSE <<PcgGet(engine)[2]>> \o OutputsFrom(PcgGet(engine)[1], n - 1)

\* C19: after discard(z) the engine has the state of an equally seeded engine
\* that was advanced by get() alone, z times for this call and once per value
\* skipped before it, and returns the same values from then on; every value
\* get() returned was the value the twin returned.
C19_DiscardIsRepeatedGet ==
    /\ lastrng.op = "discard" =>
          /\ rng.state = twin.state
          /\ rng.state = AfterGets(lastrng.before, lastrng.z).state
          /\ OutputsFrom(rng, MaxRngCalls) = OutputsFrom(twin, MaxRngCalls)
    /\ lastrng.op = "get" => lastrng.value = lastrng.twin_value

C19_Witness ==
    /\ lastrng.op = "discard"
    /\ lastrng.z = MaxDiscard
    /\ lastrng.calls = 3
    /\ lastrng.before # PcgNew(None)
    /\ rng.state = AfterGets(PcgNew(None), MaxDiscard + 2).state
    /\ rng.state # lastrng.before.state

\* C20: after seed(s), whatever was called before, the engine has the state of
\* PCG32Fast::new(s) and returns the values a new engine returns, for s = None
\* and for an explicit seed alike.
C20_SeedResets ==
    lastrng.op = "seed" =>
        /\ rng = PcgNew(lastrng.seed)
        /\ OutputsFrom(rng, MaxRngCalls) = OutputsFrom(PcgNew(lastrng.seed), MaxRngCalls)

C20_Witness ==
    /\ lastrng.op = "seed"
    /\ lastrng.seed = Some(U64(MaxSeed))
    /\ lastrng.calls = 3
    /\ lastrng.before.state = AfterGets(PcgNew(None), MaxDiscard + 1).state
    /\ rng.state = <<7, 0, 0, 0, 0, 0, 0, 0>>

(***************************************************************************)
(* The game: Snake and Food of main.rs and the loop of main.  The snake's  *)
(* segments are a CyclicBuffer<Position>, oldest segment first, the head   *)
(* last.                                                                   *)
(***************************************************************************)
\* T::default() for Position, the content of an unused slot
PositionDefault == [x |-> 0, y |-> 0]

\* Snake::max_segments
MaxSegments(dim) == (dim.x - 2) * (dim.y - 2)

\* Snake::new: the buffer with the one segment in the middle of the field
SnakeNew(dim) ==
    Push([segments |-> [k \in 1..MaxSegments(dim) |-> PositionDefault],
          head_index |-> 0,
          beyond_tail_index |-> 0,
          empty |-> TRUE],
         [x |-> dim.x \div 2, y |-> dim.y \div 2])[1]

\* self.segments.iter().last().unwrap() on a buffer that is not empty
SnakeHead(b) == Iter(b)[Len(Iter(b))]

\* self.segments.pop() on Positions: the slot left holds Position's default
SnakePop(b) ==
    IF b.empty THEN b
    ELSE [Pop(b)[1] EXCEPT !.segments[b.head_index + 1] = PositionDefault]

\* the match on self.direction in tick
NewHead(head, dir) ==
    CASE dir = "Up" -> [x |-> head.x, y |-> head.y - 1]
      [] dir = "Down" -> [x |-> head.x, y |-> head.y + 1]
      [] dir = "Left" -> [x |-> head.x - 1, y |-> head.y]
      [] dir = "Right" -> [x |-> head.x + 1, y |-> head.y]

\* the usize subtraction of the match would go below zero
Underflows(head, dir) ==
    \/ dir = "Up" /\ head.y = 0
    \/ dir = "Left" /\ head.x = 0

\* Snake::eat
Eat(b, food_position) == SnakeHead(b) = food_position

\* Snake::alive
Alive(b, dim) ==
    LET head == SnakeHead(b)
        head_id == Count(b) - 1
        hit_wall == \/ head.x < 1 \/ head.x >= dim.x - 1
                    \/ head.y < 1 \/ head.y >= dim.y - 1
        bit_self == \E id \in 0..(Count(b) - 1) :
                        Iter(b)[id + 1] = head /\ id # head_id
    IN  ~hit_wall /\ ~bit_self

\* Snake::won
Won(b) == Full(b)

\* the value of a u32, given as four bytes low first, modulo n
U32Rem(value, n) ==
    ((((((value[4] % n) * 256 + value[3]) % n) * 256 + value[2]) % n) * 256
       + value[1]) % n

\* the positions the two loops of Food::new visit, in their order
InteriorFields(dim) ==
    [k \in 1..MaxSegments(dim) |->
        [x |-> 1 + ((k - 1) % (dim.x - 2)), y |-> 1 + ((k - 1) \div (dim.x - 2))]]

\* free_fields of Food::new
FreeFields(dim, blocked_fields) ==
    SelectSeq(InteriorFields(dim),
              LAMBDA position : \A i \in 1..Len(blocked_fields) :
                                    blocked_fields[i] # position)

\* Food::new: the engine after rng.get(), and the position chosen or the
\* panic: of `%` with a divisor of zero, or of unwrap() on nth() past the end
FoodNew(dim, engine, blocked_fields) ==
    LET fields_total == (dim.x - 2) * (dim.y - 2)
        got == PcgGet(engine)
        divisor == fields_total - Len(blocked_fields)
        rand == IF divisor = 0 THEN 0 ELSE U32Rem(got[2], divisor)
        free_fields == FreeFields(dim, blocked_fields)
        fails == divisor = 0 \/ rand >= Len(free_fields)
    IN  [panic |-> fails,
         engine |-> got[1],
         divisor |-> divisor,
         rand |-> rand,
         free_fields |-> free_fields,
         position |-> IF fails THEN PositionDefault ELSE free_fields[rand + 1]]

\* what get_direction_from_stdin can return
Inputs == {None} \cup {Some(d) : d \in {"Up", "Down", "Left", "Right"}}

\* the keys of one play on a terminal of 12 columns and 5 rows, one per pass
\* through the loop
WinningKeys ==
    <<
      "Up", "Left", "Left", "Down", "Right", "Right",
      "Right", "Right", "Up", "Left", "Left", "Left",
      "Left", "Left", "Left", "Down", "Left", "Left",
      "Up", "Right", "Right", "Right", "Right", "Right",
      "Right", "Right", "Down", "Left", "Left", "Up",
      "Left", "Left", "Down", "Left", "Left", "Left",
      "Up", "Right", "Right", "Right", "Down", "Right",
      "Up", "Right", "Right", "Right", "Right", "Right",
      "Down", "Left", "Left", "Left", "Left", "Left",
      "Left", "Left", "Left", "Left", "Up", "Right",
      "Right", "Right", "Right", "Right", "Right", "Right",
      "Right", "Right", "Down", "Left", "Left", "Left",
      "Left", "Left", "Left", "Left", "Up", "Up"
    >>

\* FOOD_SCORE
FOOD_SCORE == 100

\* the terminal's dimensions, of which main makes field_dimensions
TerminalDimensions == [x |-> field_dimensions.x, y |-> field_dimensions.y + 1]

\* draw_score: a character of "Score: {}" is set outside the back buffer
DrawScorePanics(dim, n) ==
    \E i \in 0..(7 + Len(UsizeToString(n)) - 1) :
        ~((dim.y - 1) * dim.x + (i + 1) < dim.x * dim.y)

\* draw_speed: dimensions.x - i - 2 goes below zero for a character of
\* "Speed: {}", or the character is set outside the back buffer
DrawSpeedPanics(dim, n) ==
    \E i \in 0..(7 + Len(UsizeToString(n)) - 1) : dim.x < i + 2

\* the record of a call of Food::new: the segments it was given, whether it
\* was the call inside the loop, and its outcome
FoodCall(f, blocked_fields, in_loop) ==
    [in_loop |-> in_loop, blocked_fields |-> blocked_fields, panic |-> f.panic,
     divisor |-> f.divisor, rand |-> f.rand, free_fields |-> f.free_fields,
     position |-> f.position]

\* one pass through the loop of main, input being what
\* get_direction_from_stdin returns in it; stdout takes every write.  After
\* MaxTicks passes the keys are those of WinningKeys.
GameLoop(input) ==
    /\ game_pc = "loop"
    /\ ticks < Len(WinningKeys)
    /\ ticks < MaxTicks \/ input = Some(WinningKeys[ticks + 1])
    /\ ticks' = ticks + 1
    /\ UNCHANGED <<field_dimensions, fifo, pushed, popped, forced, calls>>
    /\ IF Empty(Self) \/ Underflows(SnakeHead(Self), snake_direction)
       THEN \* tick panics: unwrap() on None, or the subtraction
            /\ game_pc' = "panic"
            /\ UNCHANGED <<segments, head_index, beyond_tail_index, empty, pre, last,
                           food, lastfood, rng, snake_direction, score, speed>>
       ELSE LET \* snake.tick(&food)
                new_head == NewHead(SnakeHead(Self), snake_direction)
                eat == Eat(Self, food)
                before_push == IF eat THEN Self ELSE SnakePop(Self)
                pushed_to == Push(before_push, new_head)
                snake == pushed_to[1]
                new_score == IF eat THEN score + FOOD_SCORE ELSE score
                \* food = Food::new(..) and the new speed, if tick returned true
                f == FoodNew(field_dimensions, rng, Iter(snake))
                new_speed == IF eat THEN Min(speed + 5, 50) ELSE speed
                \* the update of snake.direction
                new_direction == IF input = None THEN snake_direction ELSE input[1]
            IN  /\ Assign(snake)
                /\ pre' = before_push
                /\ last' = [op |-> "push", value |-> new_head, ok |-> pushed_to[2],
                            ret |-> None]
                /\ score' = new_score
                /\ IF eat /\ f.panic
                   THEN /\ game_pc' = "panic"
                        /\ rng' = f.engine
                        /\ lastfood' = FoodCall(f, Iter(snake), TRUE)
                        /\ UNCHANGED <<food, snake_direction, speed>>
                   ELSE /\ IF eat
                           THEN /\ food' = f.position
                                /\ rng' = f.engine
                                /\ lastfood' = FoodCall(f, Iter(snake), TRUE)
                           ELSE UNCHANGED <<food, rng, lastfood>>
                        /\ speed' = new_speed
                        /\ IF \/ DrawScorePanics(TerminalDimensions, new_score)
                              \/ DrawSpeedPanics(TerminalDimensions, new_speed)
                           THEN /\ game_pc' = "panic"
                                /\ UNCHANGED snake_direction
                           ELSE /\ snake_direction' =
                                      IF ~IsOpposite(new_direction, snake_direction)
                                      THEN new_direction ELSE snake_direction
                                /\ game_pc' =
                                      IF ~Alive(snake, field_dimensions) \/ Won(snake)
                                      THEN "done" ELSE "loop"

\* main up to the loop, on a terminal whose field has room for two segments
\* at least
InitSnakeAndFood ==
    /\ field_dimensions \in {d \in [x : 3..MaxTermX, y : 3..(MaxTermY - 1)] :
                                MaxSegments(d) >= 2}
    /\ segments = SnakeNew(field_dimensions).segments
    /\ head_index = SnakeNew(field_dimensions).head_index
    /\ beyond_tail_index = SnakeNew(field_dimensions).beyond_tail_index
    /\ empty = SnakeNew(field_dimensions).empty
    /\ pre = SnakeNew(field_dimensions)
    /\ last = [op |-> "new", value |-> PositionDefault, ok |-> TRUE, ret |-> None]
    /\ fifo = <<>>
    /\ pushed = 0
    /\ popped = 0
    /\ forced = 0
    /\ calls = 0
    /\ LET f == FoodNew(field_dimensions, PcgNew(None),
                        Iter(SnakeNew(field_dimensions)))
       IN  /\ rng = f.engine
           /\ food = f.position
           /\ lastfood = FoodCall(f, Iter(SnakeNew(field_dimensions)), FALSE)
    /\ twin = <<>>
    /\ lastrng = <<>>
    /\ game_pc = "loop"
    /\ score = 0
    /\ speed = 0
    /\ ticks = 0

InitGame == InitSnakeAndFood /\ NoFrameBuffer /\ NoEncoder /\ NoInput

NextGame ==
    \E input \in Inputs :
        /\ GameLoop(input)
        /\ UNCHANGED <<fbVars, encVars, twin, lastrng,
                       channel, sent, received, drained, main_pc, direction>>

SpecGame == InitGame /\ [][NextGame]_vars

(***************************************************************************)
(* Properties of the game, checked under SpecGame.                         *)
(***************************************************************************)

\* C26: whenever Food::new is called in the loop, after a tick in which the
\* snake ate, the number of fields inside the walls minus the number of
\* segments is at least 1, the call does not fail, and the position chosen is
\* a free field that no segment occupies; also when the snake has just
\* reached its greatest length.
C26_FoodHasAFreeField ==
    (lastfood # <<>> /\ lastfood.in_loop) =>
        /\ lastfood.divisor >= 1
        /\ ~lastfood.panic
        /\ lastfood.rand < Len(lastfood.free_fields)
        /\ lastfood.position = lastfood.free_fields[lastfood.rand + 1]
        /\ \A i \in 1..Len(lastfood.blocked_fields) :
              lastfood.blocked_fields[i] # lastfood.position

\* C27: whenever tick is called the buffer of segments is not empty; the
\* buffer is not full when tick pushes the new head, the push returns true,
\* and after the tick the new head is the last segment of the iteration.
C27_PushInTickSucceeds ==
    /\ game_pc = "loop" => ~Empty(Self)
    /\ last.op = "push" =>
          /\ ~Full(pre)
          /\ last.ok
          /\ SnakeHead(Self) = last.value
          /\ Count(Self) = Count(pre) + 1

\* a tick in which the snake ate and grew to five segments, the buffer
\* wrapped around the end of the array, the game going on
C27_Witness ==
    /\ game_pc = "loop"
    /\ last.op = "push" /\ last.ok
    /\ lastfood.in_loop
    /\ Count(pre) = 4
    /\ Count(Self) = 5
    /\ beyond_tail_index <= head_index
    /\ SnakeHead(Self) = last.value
    /\ food # last.value

====
